---- MODULE Spec2Model ----
(***************************************************************************)
(* A model of libheif's FFmpeg HEVC decoder plugin                         *)
(* (libheif/plugins/decoder_ffmpeg.cc): the decoder instance with its      *)
(* NalMap, push_data's parse of length-prefixed NAL units, decode_image's  *)
(* mandatory-unit check, bitstream assembly and use of the libavcodec      *)
(* backend, and free_decoder.  The caller's buffers are modelled as memory *)
(* objects, because a NalUnit keeps a pointer into them.                   *)
(***************************************************************************)
EXTENDS Integers, Sequences, FiniteSets, TLC

(***************************************************************************)
(* Bounds of the model.                                                    *)
(***************************************************************************)
\* Units per buffer handed to push_data.
MaxUnits == 2
\* Bytes of one unit's payload.
MaxPayload == 1
\* NalUnit objects alive at once per decoder instance (caps the leak counter).
MaxAlloc == 5
\* Iterations of decode_image's parse loop.
MaxPackets == 2
\* Width and height of a decoded frame.
MaxDim == 3
\* Registered encoder descriptors that match the filters (the small
\* registries; the capacity is 10, 20, 40 for them).
MaxDescriptors == 21

(***************************************************************************)
(* Program constants.                                                      *)
(***************************************************************************)
NAL_UNIT_VPS_NUT == 32
NAL_UNIT_SPS_NUT == 33
NAL_UNIT_PPS_NUT == 34
NAL_UNIT_IDR_W_RADL == 19
NAL_UNIT_IDR_N_LP == 20
hevc_AnnexB_StartCode_size == 4
FFMPEG_DECODER_PLUGIN_PRIORITY == 90
\* int maxDescriptors = 10;
InitialMaxDescriptors == 10
\* The largest value of an int (32 bits).
INT_MAX == 2147483647

hevc_AnnexB_StartCode == <<0, 0, 0, 1>>

kEmptyString == ""
kSuccess == "Success"

heif_error_success ==
    [code |-> "heif_error_Ok", subcode |-> "heif_suberror_Unspecified",
     message |-> kSuccess]

\* The error both push_data and decode_image build for missing data; they
\* differ in the message only.
EndOfData(msg) ==
    [code |-> "heif_error_Decoder_plugin_error",
     subcode |-> "heif_suberror_End_of_data", message |-> msg]

PluginError(msg) ==
    [code |-> "heif_error_Decoder_plugin_error",
     subcode |-> "heif_suberror_Unspecified", message |-> msg]

AllocError(msg) ==
    [code |-> "heif_error_Memory_allocation_error",
     subcode |-> "heif_suberror_Unspecified", message |-> msg]

(***************************************************************************)
(* Bytes and buffers.                                                      *)
(***************************************************************************)
\* First bytes of the units the model pushes: types 19, 20, 32, 33, 34 and
\* one type (1) decode_image does not look at.
TagBytes == {38, 40, 64, 66, 68, 2}

\* What a read outside the caller's buffer, or of released memory, may see.
StrayBytes == {0, 64, 38}

\* NalUnit::bitExtracted: bits_count bits of number from bit position_nr-1.
bitExtracted(number, bits_count, position_nr) ==
    (number \div (2 ^ (position_nr - 1))) % (2 ^ bits_count)

\* n filler bytes, for the bytes of a payload behind the first.
RECURSIVE Fill(_)
Fill(n) == IF n = 0 THEN <<>> ELSE <<1>> \o Fill(n - 1)

\* The payloads of the pushed units: empty, or a first byte and filler.
Payloads ==
    {<<>>} \cup {<<b>> \o Fill(n) : b \in TagBytes, n \in 0 .. (MaxPayload - 1)}

\* The 4-byte big-endian length prefix of n.
BigEndian32(n) ==
    << (n \div 16777216) % 256, (n \div 65536) % 256, (n \div 256) % 256, n % 256 >>

EncodeUnit(p) == BigEndian32(Len(p)) \o p

RECURSIVE UnitStreams(_)
UnitStreams(k) ==
    IF k = 0 THEN {<<>>}
    ELSE LET shorter == UnitStreams(k - 1)
         IN  shorter \cup {s \o EncodeUnit(p) : s \in shorter, p \in Payloads}

Prefixes(s) == {SubSeq(s, 1, n) : n \in 0 .. Len(s)}

\* The buffers a caller hands to push_data: every stream of at most
\* MaxUnits units and every truncation of one (a cut length prefix, a
\* declared length past the end, a zero-length unit, also as the last one),
\* and a length prefix far larger than any buffer.
InputBuffers ==
    UNION {Prefixes(s) : s \in UnitStreams(MaxUnits)}
      \cup {<<64, 0, 0, 0>>, <<0, 0, 1, 0, 64>>}

(***************************************************************************)
(* State.                                                                  *)
(***************************************************************************)
\* The decoder handles a caller may hold.
Handles == {1, 2}

\* The handle of the runs that are about one instance.
Single == {1}

\* The values of enum heif_compression_format a caller asks about.
CompressionFormats ==
    {"heif_compression_undefined", "heif_compression_HEVC", "heif_compression_AVC",
     "heif_compression_JPEG", "heif_compression_AV1"}

\* The int values a caller passes to set_strict_decoding.
StrictFlags == {0, 1, 2}

VARIABLES
    status,           \* per handle: "none", "live" (new_decoder) or "freed"
    NalMap,           \* ffmpeg_decoder::NalMap: unit type -> NalUnit
    strict_decoding,  \* ffmpeg_decoder::strict_decoding
    allocated,        \* NalUnit objects push_data created for the handle, not yet deleted
    mem,              \* the caller's buffers some NalUnit points into
    pushed,           \* per held unit, the bytes its buffer held at push_data
    picture_first,    \* a picture unit was stored while no parameter set was held
    spent,            \* decode_image returned success and no push_data followed
    out_img,          \* what the caller's heif_image* points to: "none", "image", "released"
    call,             \* the last call and what it returned
    crashed           \* the process was terminated

vars ==
    <<status, NalMap, strict_decoding, allocated, mem, pushed, picture_first, spent,
      out_img, call, crashed>>

\* An empty std::map.
EmptyMap == [t \in {} |-> 0]

\* The backend was not asked anything.
NoBackend ==
    [malloc |-> TRUE, setup |-> "", script |-> <<>>, pix_fmt |-> "", width |-> 0,
     height |-> 0, tail |-> ""]

\* No call of get_encoder_descriptors was made.
NoDescriptorCall ==
    [pc |-> "none", registry |-> [size |-> 0, order |-> ""],
     maxDescriptors |-> 0, nDescriptors |-> 0, allocated |-> <<>>, deleted |-> <<>>,
     outDescriptors |-> <<>>, ub |-> {}]

NoCall ==
    [op |-> "none", handle |-> 0, ret |-> heif_error_success,
     data |-> <<>>, reads |-> {},
     units |-> EmptyMap, picture_first |-> FALSE, after_success |-> FALSE,
     hevc_data |-> <<>>, expected |-> <<>>,
     backend |-> NoBackend, images |-> <<>>, assigned |-> FALSE,
     ub |-> {}, flag |-> 0, strict |-> FALSE, format |-> "", priority |-> 0,
     wrapper |-> "", c_ret |-> heif_error_success, thrown |-> FALSE,
     error |-> [m_code |-> "heif_error_Ok", m_subcode |-> "heif_suberror_Unspecified",
                m_message |-> "Ok"],
     result |-> "none",
     failed |-> FALSE, failed_held |-> {}, retry |-> FALSE, retry_held |-> {},
     held |-> EmptyMap, hevc_data_size |-> 0,
     acquired |-> <<>>, released |-> <<>>,
     enc |-> NoDescriptorCall]

(***************************************************************************)
(* The caller's memory.                                                    *)
(***************************************************************************)
\* The buffers some NalUnit of a live decoder points into; the others
\* cannot influence the program any more and are dropped.
Referenced(maps, stat) ==
    UNION {{maps[d][t].nal_data_ptr.buf : t \in DOMAIN maps[d]} :
              d \in {h \in Handles : stat[h] = "live"}}

Collect(m, maps, stat) == [b \in (DOMAIN m) \cap Referenced(maps, stat) |-> m[b]]

\* A buffer's address has no meaning beyond its identity.  Buffers are
\* named 1, 2, ... in the order of the first (handle, unit type) that points
\* into them, so that two states differing only in addresses are one state.
\* NewBuf names the buffer of the push under way.
NewBuf == 0

BufKey(b, maps, stat) ==
    LET mine == UNION {{d * 64 + t : t \in {u \in DOMAIN maps[d] :
                                              maps[d][u].nal_data_ptr.buf = b}} :
                          d \in {h \in Handles : stat[h] = "live"}}
    IN  CHOOSE k \in mine : \A k2 \in mine : k <= k2

BufName(b, maps, stat) ==
    1 + Cardinality({b2 \in Referenced(maps, stat) :
                        BufKey(b2, maps, stat) < BufKey(b, maps, stat)})

RenameMaps(maps, stat) ==
    [d \in Handles |->
        [t \in DOMAIN maps[d] |->
            IF stat[d] = "live"
            THEN [maps[d][t] EXCEPT !.nal_data_ptr.buf = BufName(@, maps, stat)]
            ELSE maps[d][t]]]

RenameMem(m, maps, stat) ==
    LET kept == Collect(m, maps, stat)
    IN  [n \in 1 .. Cardinality(DOMAIN kept) |->
            kept[CHOOSE b \in DOMAIN kept : BufName(b, maps, stat) = n]]

(***************************************************************************)
(* push_data.                                                              *)
(***************************************************************************)
\* cdata[i] for a 0-based i; a read at or past the buffer's end sees stray.
ReadByte(cdata, i, stray) == IF i < Len(cdata) THEN cdata[i + 1] ELSE stray

\* if (4 > size - ptr)
PrefixTruncated(size, ptr) == 4 > size - ptr

\* The same with >= for >: a unit that ends the buffer is refused.
UnitTruncated_OffByOne(nal_size, size, ptr) == nal_size >= size - ptr

\* if (nal_size > size - ptr)
UnitTruncated(nal_size, size, ptr) == nal_size > size - ptr

\* uint32_t nal_size = (cdata[ptr] << 24) | ... | cdata[ptr + 3].  The bytes
\* of the model are below 128, so the value is below 2^31: it neither wraps
\* in 32 bits nor changes when set_data takes it as an int.
ReadNalSize(cdata, ptr, stray) ==
    ReadByte(cdata, ptr, stray) * 16777216 + ReadByte(cdata, ptr + 1, stray) * 65536
      + ReadByte(cdata, ptr + 2, stray) * 256 + ReadByte(cdata, ptr + 3, stray)

\* NalUnit::set_data: keeps the pointer, reads the first byte for the type.
set_data(buf, off, cdata, n, stray) ==
    [nal_data_ptr |-> [buf |-> buf, off |-> off],
     nal_unit_type |-> bitExtracted(ReadByte(cdata, off, stray), 6, 2),
     nal_data_size |-> n]

ParameterSetTypes == {NAL_UNIT_VPS_NUT, NAL_UNIT_SPS_NUT, NAL_UNIT_PPS_NUT}
PictureTypes == {NAL_UNIT_IDR_W_RADL, NAL_UNIT_IDR_N_LP}

\* decoder->NalMap[type] = nal_unit
MapPut(map, t, v) == [x \in (DOMAIN map) \cup {t} |-> IF x = t THEN v ELSE map[x]]

\* The while loop of push_data from position st.ptr.  st carries the map,
\* the number of NalUnit objects allocated, the indices read and the bytes
\* each stored unit covered.
RECURSIVE push_loop(_, _, _, _, _)
push_loop(cdata, size, buf, stray, st) ==
    IF ~(st.ptr < size) THEN st
    ELSE IF PrefixTruncated(size, st.ptr)
    THEN [st EXCEPT !.ret = EndOfData(kEmptyString)]
    ELSE LET nal_size == ReadNalSize(cdata, st.ptr, stray)
             ptr2 == st.ptr + 4
             rd == st.reads \cup (st.ptr .. (st.ptr + 3))
         IN  IF UnitTruncated(nal_size, size, ptr2)
             THEN [st EXCEPT !.ret = EndOfData(kEmptyString), !.reads = rd]
             ELSE LET nal_unit == set_data(buf, ptr2, cdata, nal_size, stray)
                  IN  push_loop(cdata, size, buf, stray,
                        [st EXCEPT
                           !.ptr = ptr2 + nal_size,
                           !.reads = rd \cup {ptr2},
                           !.allocs = @ + 1,
                           !.map = MapPut(@, nal_unit.nal_unit_type, nal_unit),
                           !.picture_first =
                               @ \/ (/\ nal_unit.nal_unit_type \in PictureTypes
                                     /\ DOMAIN st.map \cap ParameterSetTypes = {}),
                           !.pushed = MapPut(@, nal_unit.nal_unit_type,
                                             SubSeq(cdata, ptr2 + 1, ptr2 + nal_size))])

push_data(map, held, first, cdata, size, buf, stray) ==
    push_loop(cdata, size, buf, stray,
              [ptr |-> 0, map |-> map, pushed |-> held, picture_first |-> first,
               allocs |-> 0, reads |-> {}, ret |-> heif_error_success])

\* The number of NalUnit objects push_data creates from cdata.
UnitsIn(cdata) ==
    push_data(EmptyMap, EmptyMap, FALSE, cdata, Len(cdata), NewBuf, 0).allocs

(***************************************************************************)
(* decode_image and the libavcodec backend.                                *)
(***************************************************************************)
\* What the backend does during one decode_image is not decided by this
\* code; a behaviour fixes every answer the backend gives in one call:
\*   malloc   whether malloc(hevc_data_size) returns memory
\*   setup    "ok" or the first call before the parse loop that fails
\*   script   what each iteration of the parse loop brings
\*   pix_fmt, width, height   of the codec context and the frame
\*   tail     "ok" or the first call after the parse loop that fails
SetupFailures ==
    {"av_packet_alloc", "avcodec_find_decoder", "av_parser_init",
     "avcodec_alloc_context3", "avcodec_open2", "av_frame_alloc"}

TailFailures ==
    {"avcodec_parameters_alloc", "avcodec_parameters_from_context",
     "heif_nclx_color_profile_alloc"}

\* One iteration of the parse loop: av_parser_parse2 fails; it consumes
\* input and emits no packet; or it emits a packet, and hevc_decode then
\* fails in avcodec_send_packet or avcodec_receive_frame, in
\* heif_image_create or in heif_image_add_plane of one channel, or gets a
\* frame ("frame").
Continuing == {"no_packet", "frame"}

Ending ==
    Continuing \cup {"parse_error", "send_error", "receive_again", "receive_error",
                     "create_error", "add_plane_error_0", "add_plane_error_1",
                     "add_plane_error_2"}

PixFmts ==
    {"AV_PIX_FMT_YUV420P", "AV_PIX_FMT_YUVJ420P", "AV_PIX_FMT_YUV420P10LE",
     "AV_PIX_FMT_YUV444P"}

RECURSIVE Runs(_)
Runs(k) ==
    IF k = 0 THEN {<<>>}
    ELSE LET shorter == Runs(k - 1)
         IN  shorter \cup {r \o <<o>> : r \in shorter, o \in Continuing}

\* The parse loop runs while input is left: at least once, at most
\* MaxPackets times here; only its last iteration can be a failing one.
Scripts == {r \o <<o>> : r \in Runs(MaxPackets - 1), o \in Ending}

\* The same without the 10 bit format.
SupportedPixFmt_No10Bit(pix_fmt) ==
    pix_fmt \in {"AV_PIX_FMT_YUV420P", "AV_PIX_FMT_YUVJ420P"}

\* if ((pix_fmt == AV_PIX_FMT_YUV420P) || (pix_fmt == AV_PIX_FMT_YUVJ420P) ||
\*     (pix_fmt == AV_PIX_FMT_YUV420P10LE))
SupportedPixFmt(pix_fmt) ==
    pix_fmt \in {"AV_PIX_FMT_YUV420P", "AV_PIX_FMT_YUVJ420P", "AV_PIX_FMT_YUV420P10LE"}

UnsupportedColorConversion ==
    [code |-> "heif_error_Unsupported_feature",
     subcode |-> "heif_suberror_Unsupported_color_conversion",
     message |-> "Pixel format not implemented"]

InvalidImageSize ==
    [code |-> "heif_error_Decoder_plugin_error",
     subcode |-> "heif_suberror_Invalid_image_size", message |-> kEmptyString]

\* What heif_image_create and heif_image_add_plane return when they fail.
ImageCreateError == AllocError("heif_image_create failed")
AddPlaneError == AllocError("heif_image_add_plane failed")

IsOk(err) == err.code = "heif_error_Ok"

\* heif_image_create(width, height, heif_colorspace_YCbCr, heif_chroma_420, image)
NewImage ==
    [released |-> FALSE, colorspace |-> "heif_colorspace_YCbCr",
     chroma |-> "heif_chroma_420", planes |-> EmptyMap]

\* int w = (channel == 0) ? hevc_frame->width : hevc_frame->width >> 1
PlaneSize(channel, full) == IF channel = 0 THEN full ELSE full \div 2

\* The loop over the three channels of hevc_decode from channel on; img is
\* the image created so far.  Gives the error and the image.
RECURSIVE add_planes(_, _, _, _)
add_planes(be, o, channel, img) ==
    IF channel >= 3 THEN [err |-> heif_error_success, img |-> img]
    ELSE LET bpp == IF be.pix_fmt = "AV_PIX_FMT_YUV420P10LE" THEN 10 ELSE 8
             w == PlaneSize(channel, be.width)
             h == PlaneSize(channel, be.height)
         IN  IF w <= 0 \/ h <= 0
             THEN [err |-> InvalidImageSize, img |-> [img EXCEPT !.released = TRUE]]
             ELSE IF o = "add_plane_error_" \o ToString(channel)
             THEN [err |-> AddPlaneError, img |-> [img EXCEPT !.released = TRUE]]
             ELSE add_planes(be, o, channel + 1,
                    [img EXCEPT !.planes =
                        MapPut(@, channel, [width |-> w, height |-> h, bpp |-> bpp])])

\* hevc_decode for one packet; o is what the backend does with it.  st
\* carries the error, what *out_img points to, whether this call assigned it,
\* and the images this call created.
hevc_decode(be, o, st) ==
    IF o = "send_error"
    THEN [st EXCEPT !.err = PluginError("Error in avcodec_send_packet")]
    ELSE IF o = "receive_again"
    THEN [st EXCEPT !.err =
             PluginError("avcodec_receive_frame returned EAGAIN or ERROR_EOF")]
    ELSE IF o = "receive_error"
    THEN [st EXCEPT !.err = PluginError("Error in avcodec_receive_frame")]
    ELSE IF ~SupportedPixFmt(be.pix_fmt)
    THEN [st EXCEPT !.err = UnsupportedColorConversion]
    ELSE IF o = "create_error"
    THEN [st EXCEPT !.err = ImageCreateError]
    ELSE LET r == add_planes(be, o, 0, NewImage)
         IN  [err |-> r.err, out_img |-> IF r.img.released THEN "released" ELSE "image",
              assigned |-> TRUE, images |-> Append(st.images, r.img)]

\* The while (parse_hevc_data_size > 0) loop from iteration i on.
RECURSIVE parse_loop(_, _, _)
parse_loop(be, i, st) ==
    IF i > Len(be.script) THEN st
    ELSE IF be.script[i] = "parse_error"
    THEN [st EXCEPT !.err = PluginError("av_parser_parse2 returned error")]
    ELSE IF be.script[i] = "no_packet"
    THEN parse_loop(be, i + 1, st)
    ELSE LET r == hevc_decode(be, be.script[i], st)
         IN  IF ~IsOk(r.err) THEN r ELSE parse_loop(be, i + 1, r)

\* The error of a failing call before the parse loop.
SetupError(what) ==
    CASE what = "av_packet_alloc" -> AllocError("av_packet_alloc returned error")
      [] what = "avcodec_find_decoder" ->
            PluginError("avcodec_find_decoder(AV_CODEC_ID_HEVC) returned error")
      [] what = "av_parser_init" -> PluginError("av_parser_init returned error")
      [] what = "avcodec_alloc_context3" ->
            AllocError("avcodec_alloc_context3 returned error")
      [] what = "avcodec_open2" -> PluginError("avcodec_open2 returned error")
      [] what = "av_frame_alloc" -> AllocError("av_frame_alloc returned error")

\* The same without the check for the PPS.
HasParameterSets_NoPps(map) ==
    /\ NAL_UNIT_VPS_NUT \in DOMAIN map
    /\ NAL_UNIT_SPS_NUT \in DOMAIN map

\* if ((NalMap.count(VPS) > 0) && (NalMap.count(SPS) > 0) && (NalMap.count(PPS) > 0))
HasParameterSets(map) ==
    /\ NAL_UNIT_VPS_NUT \in DOMAIN map
    /\ NAL_UNIT_SPS_NUT \in DOMAIN map
    /\ NAL_UNIT_PPS_NUT \in DOMAIN map

\* The same with && for ||: both picture types are asked for.
HasPicture_Both(map) ==
    NAL_UNIT_IDR_W_RADL \in DOMAIN map /\ NAL_UNIT_IDR_N_LP \in DOMAIN map

\* if ((NalMap.count(IDR_W_RADL) > 0) || (NalMap.count(IDR_N_LP) > 0))
HasPicture(map) ==
    NAL_UNIT_IDR_W_RADL \in DOMAIN map \/ NAL_UNIT_IDR_N_LP \in DOMAIN map

\* The same with the two picture types in the other order.
PictureType_PreferNLP(map) ==
    IF NAL_UNIT_IDR_N_LP \in DOMAIN map THEN NAL_UNIT_IDR_N_LP ELSE NAL_UNIT_IDR_W_RADL

\* The unit type whose data becomes heif_idrpic_data.
PictureType(map) ==
    IF NAL_UNIT_IDR_W_RADL \in DOMAIN map THEN NAL_UNIT_IDR_W_RADL ELSE NAL_UNIT_IDR_N_LP

\* decoder->NalMap[t]: std::map's operator[] gives a null pointer for a type
\* the map does not hold.
NullBuf == 0 - 1

NullUnit ==
    [nal_data_ptr |-> [buf |-> NullBuf, off |-> 0], nal_unit_type |-> 0,
     nal_data_size |-> 0]

MapAt(map, t) == IF t \in DOMAIN map THEN map[t] ELSE NullUnit

\* The NalUnit's bytes do not lie in memory the caller still holds.
Dangling(unit, m) ==
    unit.nal_data_ptr.buf \notin DOMAIN m \/ ~m[unit.nal_data_ptr.buf].live

\* The nal_data_size bytes memcpy reads at the NalUnit's data(): what the
\* caller's buffer holds now, if it is still there.
UnitBytes(unit, m, stray) ==
    IF Dangling(unit, m)
    THEN [i \in 1 .. unit.nal_data_size |-> stray]
    ELSE SubSeq(m[unit.nal_data_ptr.buf].bytes, unit.nal_data_ptr.off + 1,
                unit.nal_data_ptr.off + unit.nal_data_size)

MandatoryTypes(map) ==
    <<NAL_UNIT_VPS_NUT, NAL_UNIT_SPS_NUT, NAL_UNIT_PPS_NUT, PictureType(map)>>

\* size_t hevc_data_size = vps + sps + pps + idrpic + 4 * hevc_AnnexB_StartCode_size
hevc_data_size(map) ==
    MapAt(map, NAL_UNIT_VPS_NUT).nal_data_size + MapAt(map, NAL_UNIT_SPS_NUT).nal_data_size
      + MapAt(map, NAL_UNIT_PPS_NUT).nal_data_size
      + MapAt(map, PictureType(map)).nal_data_size
      + 4 * hevc_AnnexB_StartCode_size

\* The four memcpy pairs that fill hevc_data.
Assemble(map, m, stray) ==
    LET part(t) == hevc_AnnexB_StartCode \o UnitBytes(MapAt(map, t), m, stray)
        ts == MandatoryTypes(map)
    IN  part(ts[1]) \o part(ts[2]) \o part(ts[3]) \o part(ts[4])

\* The same four parts with the bytes the units had when they were pushed.
AsPushed(map, held) ==
    LET part(t) == hevc_AnnexB_StartCode \o (IF t \in DOMAIN held THEN held[t] ELSE <<>>)
        ts == MandatoryTypes(map)
    IN  part(ts[1]) \o part(ts[2]) \o part(ts[3]) \o part(ts[4])

\* The same without NalMap.clear(): the units stay in the map.
ClearedMap_Kept(map) == map

\* for (current = NalMap.begin(); ...) delete current->second; NalMap.clear();
ClearedMap(map) == EmptyMap

DeletedUnits(map) == Cardinality(DOMAIN map)

\* heif_image_set_nclx_color_profile(*out_img, nclx) needs *out_img to be an
\* image; it is one if this call or an earlier one left a live image there.
UsableImage(img) == img = "image"

\* The calls before the parse loop, in the order decode_image makes them.
SetupOrder ==
    <<"av_packet_alloc", "avcodec_find_decoder", "av_parser_init",
      "avcodec_alloc_context3", "avcodec_open2", "av_frame_alloc">>

\* The pointer each of these calls is assigned to, "" for the two that
\* acquire nothing (avcodec_find_decoder gives a static object, avcodec_open2
\* an int).
SetupPointer ==
    <<"hevc_pkt", "", "hevc_parser", "hevc_codecContext", "", "hevc_frame">>

\* The resources the call has acquired when it comes to errexit, in the
\* order of acquisition: malloc's buffer, what the calls before the failing
\* one returned, and, if the parse loop was passed (loop_ok), codec
\* parameters and nclx profile unless their allocation failed or was not
\* reached.
Acquisitions(be, loop_ok) ==
    LET setup == SelectSeq(
                    [k \in 1 .. 6 |->
                        IF SetupPointer[k] # ""
                             /\ \A j \in 1 .. k : be.setup # SetupOrder[j]
                        THEN SetupPointer[k] ELSE ""],
                    LAMBDA x : x # "")
        tail == IF ~loop_ok \/ be.tail = "avcodec_parameters_alloc" THEN <<>>
                ELSE IF be.tail = "avcodec_parameters_from_context"
                     THEN <<"hevc_codecParam">>
                ELSE IF be.tail = "heif_nclx_color_profile_alloc"
                     THEN <<"hevc_codecParam">>
                ELSE <<"hevc_codecParam", "nclx">>
    IN  (IF be.malloc THEN <<"hevc_data">> ELSE <<>>) \o setup \o tail

\* The same without av_parser_close.
errexit_ParserKept(nonnull) ==
    SelectSeq(<<"hevc_codecParam", "hevc_data", "hevc_codecContext", "hevc_frame",
                "hevc_pkt", "nclx">>,
              LAMBDA x : x \in nonnull)

\* errexit: each pointer that is not null is released, in this order.
errexit(nonnull) ==
    SelectSeq(<<"hevc_codecParam", "hevc_data", "hevc_parser", "hevc_codecContext",
                "hevc_frame", "hevc_pkt", "nclx">>,
              LAMBDA x : x \in nonnull)

\* decode_image past the two checks: the map, what *out_img held on entry,
\* and the backend's behaviour give the result.
decode_run(map, m, img, be, stray) ==
    LET ts == MandatoryTypes(map)
        ub0 == (IF ~be.malloc THEN {"memcpy to NULL"} ELSE {})
                 \cup (IF \E i \in 1 .. 4 : ts[i] \notin DOMAIN map
                       THEN {"NalUnit is NULL"} ELSE {})
                 \cup (IF \E i \in 1 .. 4 : ts[i] \in DOMAIN map /\ Dangling(map[ts[i]], m)
                       THEN {"read of released memory"} ELSE {})
        st0 == [err |-> heif_error_success, out_img |-> img, assigned |-> FALSE,
                images |-> <<>>]
        st1 == IF be.setup # "ok" THEN [st0 EXCEPT !.err = SetupError(be.setup)]
               ELSE parse_loop(be, 1, st0)
        st2 ==
            IF ~IsOk(st1.err) THEN st1
            ELSE IF be.tail = "avcodec_parameters_alloc"
            THEN [st1 EXCEPT !.err = AllocError("avcodec_parameters_alloc returned error")]
            ELSE IF be.tail = "avcodec_parameters_from_context"
            THEN [st1 EXCEPT !.err =
                     PluginError("avcodec_parameters_from_context returned error")]
            ELSE st1
        ub1 == IF IsOk(st1.err) /\ be.tail = "heif_nclx_color_profile_alloc"
               THEN {"write through NULL nclx"} ELSE {}
        ub2 == IF IsOk(st2.err) /\ ~UsableImage(st2.out_img)
               THEN {"*out_img is no image"} ELSE {}
        acq == Acquisitions(be, be.setup = "ok" /\ IsOk(st1.err))
    IN  [ret |-> st2.err, out_img |-> st2.out_img, assigned |-> st2.assigned,
         images |-> st2.images, ub |-> ub0 \cup ub1 \cup ub2,
         hevc_data |-> Assemble(map, m, stray),
         acquired |-> acq,
         released |-> errexit({acq[k] : k \in 1 .. Len(acq)})]

\* The behaviours of the backend.  An answer the call never asks for is
\* fixed, so that each behaviour stands for one course of the call.
Behaviour(malloc, setup, script, pix_fmt, size, tail) ==
    [malloc |-> malloc, setup |-> setup, script |-> script, pix_fmt |-> pix_fmt,
     width |-> size[1], height |-> size[2], tail |-> tail]

FrameSizes == (1 .. MaxDim) \X (1 .. MaxDim)

\* The script comes to the pixel format check of hevc_decode.
ReachesPixFmt(script) ==
    \E i \in 1 .. Len(script) :
        script[i] \notin {"no_packet", "parse_error", "send_error", "receive_again",
                          "receive_error"}

Completes(script) == \A i \in 1 .. Len(script) : script[i] \in Continuing

\* One frame of 2 x 2 in YUV420P and no failure.
PlainBehaviour ==
    Behaviour(TRUE, "ok", <<"frame">>, "AV_PIX_FMT_YUV420P", <<2, 2>>, "ok")

Behaviours ==
    {[PlainBehaviour EXCEPT !.setup = f] : f \in SetupFailures}
      \cup {[PlainBehaviour EXCEPT !.malloc = FALSE]}
      \cup UNION {UNION {UNION {
             {Behaviour(TRUE, "ok", script, pix_fmt, size, tail) :
                 tail \in IF Completes(script) THEN {"ok"} \cup TailFailures ELSE {"ok"}} :
               size \in IF ReachesPixFmt(script) /\ SupportedPixFmt(pix_fmt)
                        THEN FrameSizes ELSE {<<2, 2>>}} :
               pix_fmt \in IF ReachesPixFmt(script) THEN PixFmts
                           ELSE {"AV_PIX_FMT_YUV420P"}} :
               script \in Scripts}

\* A few behaviours for the runs that are about pushing and freeing: the
\* plain one, a parser that emits no packet, and two failures.
FewBehaviours ==
    {PlainBehaviour,
     [PlainBehaviour EXCEPT !.script = <<"no_packet">>],
     [PlainBehaviour EXCEPT !.script = <<"parse_error">>],
     [PlainBehaviour EXCEPT !.setup = "avcodec_open2"]}

(***************************************************************************)
(* The operations.                                                         *)
(***************************************************************************)
Init ==
    /\ status = [d \in Handles |-> "none"]
    /\ NalMap = [d \in Handles |-> EmptyMap]
    /\ strict_decoding = [d \in Handles |-> FALSE]
    /\ allocated = [d \in Handles |-> 0]
    /\ mem = EmptyMap
    /\ pushed = [d \in Handles |-> EmptyMap]
    /\ picture_first = [d \in Handles |-> FALSE]
    /\ spent = [d \in Handles |-> FALSE]
    /\ out_img = "none"
    /\ call = NoCall
    /\ crashed = FALSE

\* The process is terminated by undefined behaviour during a call on d.
Terminate(d, ub) ==
    /\ crashed' = TRUE
    /\ call' = [NoCall EXCEPT !.op = "terminated", !.handle = d, !.ub = ub]
    /\ UNCHANGED <<status, NalMap, strict_decoding, allocated, mem, pushed, picture_first,
                   spent, out_img>>

\* The same for every format: the plugin claims them all.
ffmpeg_does_support_format_Any(format) == FFMPEG_DECODER_PLUGIN_PRIORITY

\* ffmpeg_does_support_format
ffmpeg_does_support_format(format) ==
    IF format = "heif_compression_HEVC" THEN FFMPEG_DECODER_PLUGIN_PRIORITY ELSE 0

\* The plugin table's does_support_format; it takes no decoder.
DoesSupportFormat(format) ==
    /\ ~crashed
    /\ call' = [NoCall EXCEPT !.op = "does_support_format", !.format = format,
                              !.priority = ffmpeg_does_support_format(format)]
    /\ UNCHANGED <<status, NalMap, strict_decoding, allocated, mem, pushed, picture_first,
                   spent, out_img, crashed>>

\* The same for the flag 1 only.
StrictMode_OnlyOne(flag) == flag = 1

\* decoder->strict_decoding = flag: the int becomes a bool, true iff nonzero.
StrictMode(flag) == flag # 0

\* ffmpeg_set_strict_decoding
SetStrictDecoding(d, flag) ==
    /\ ~crashed
    /\ status[d] = "live"
    /\ strict_decoding' = [strict_decoding EXCEPT ![d] = StrictMode(flag)]
    /\ call' = [NoCall EXCEPT !.op = "set_strict_decoding", !.handle = d, !.flag = flag]
    /\ UNCHANGED <<status, NalMap, allocated, mem, pushed, picture_first, spent, out_img,
                   crashed>>

\* ffmpeg_new_decoder
NewDecoder(d) ==
    /\ ~crashed
    /\ status[d] = "none"
    /\ status' = [status EXCEPT ![d] = "live"]
    /\ NalMap' = [NalMap EXCEPT ![d] = EmptyMap]
    /\ strict_decoding' = [strict_decoding EXCEPT ![d] = FALSE]
    /\ call' = [NoCall EXCEPT !.op = "new_decoder", !.handle = d]
    /\ UNCHANGED <<allocated, mem, pushed, picture_first, spent, out_img, crashed>>

\* push_data reads past the end of data.
Overreads(data) ==
    \E i \in push_data(EmptyMap, EmptyMap, FALSE, data, Len(data), NewBuf, 0).reads :
        i >= Len(data)

\* The call of op on d is part of a retry: a push_data straight after a
\* decode_image on d that failed the mandatory-unit check, or the
\* decode_image straight after that push_data.
Retrying(d, op) ==
    /\ call.handle = d
    /\ call.failed
    /\ call.op = (IF op = "push_data" THEN "decode_image" ELSE "push_data")

\* ffmpeg_v1_push_data on a buffer holding data: a fresh buffer (into = 0) or
\* a buffer of an earlier push that the caller has filled anew.  A read
\* past the buffer's end is undefined: it sees some byte (stray), or the
\* process is terminated (fatal).
PushData(d, data, into) ==
    /\ ~crashed
    /\ status[d] = "live"
    /\ allocated[d] + UnitsIn(data) <= MaxAlloc
    /\ into = 0 \/ (into \in DOMAIN mem /\ mem[into].live
                      /\ Len(mem[into].bytes) = Len(data))
    /\ \E stray \in IF Overreads(data) THEN StrayBytes ELSE {0},
          fatal \in IF Overreads(data) THEN BOOLEAN ELSE {FALSE} :
         LET buf == IF into = 0 THEN NewBuf ELSE into
             r == push_data(NalMap[d], pushed[d], picture_first[d], data, Len(data),
                            buf, stray)
             maps == [NalMap EXCEPT ![d] = r.map]
             m == [b \in (DOMAIN mem) \cup {buf} |->
                      IF b = buf THEN [bytes |-> data, live |-> TRUE] ELSE mem[b]]
         IN  IF fatal
             THEN Terminate(d, {"read past the buffer"})
             ELSE /\ NalMap' = RenameMaps(maps, status)
                  /\ pushed' = [pushed EXCEPT ![d] = r.pushed]
                  /\ picture_first' = [picture_first EXCEPT ![d] = r.picture_first]
                  /\ spent' = [spent EXCEPT ![d] = FALSE]
                  /\ allocated' = [allocated EXCEPT ![d] = @ + r.allocs]
                  /\ mem' = RenameMem(m, maps, status)
                  /\ call' = [NoCall EXCEPT
                                !.op = "push_data", !.handle = d, !.ret = r.ret,
                                !.data = data, !.reads = r.reads,
                                !.failed = Retrying(d, "push_data"),
                                !.failed_held = IF Retrying(d, "push_data")
                                                THEN call.failed_held ELSE {},
                                !.ub = IF Overreads(data) THEN {"read past the buffer"}
                                       ELSE {}]
                  /\ UNCHANGED <<status, strict_decoding, out_img, crashed>>

\* The caller overwrites a buffer it pushed earlier.
CallerOverwrite(b, v) ==
    /\ ~crashed
    /\ b \in DOMAIN mem /\ mem[b].live
    /\ \E i \in 1 .. Len(mem[b].bytes) : mem[b].bytes[i] # v
    /\ mem' = [mem EXCEPT ![b].bytes = [i \in 1 .. Len(@) |-> v]]
    /\ call' = [NoCall EXCEPT !.op = "caller"]
    /\ UNCHANGED <<status, NalMap, strict_decoding, allocated, pushed, picture_first,
                   spent, out_img, crashed>>

\* The caller releases a buffer it pushed earlier.
CallerRelease(b) ==
    /\ ~crashed
    /\ b \in DOMAIN mem /\ mem[b].live
    /\ mem' = [mem EXCEPT ![b] = [bytes |-> <<>>, live |-> FALSE]]
    /\ call' = [NoCall EXCEPT !.op = "caller"]
    /\ UNCHANGED <<status, NalMap, strict_decoding, allocated, pushed, picture_first,
                   spent, out_img, crashed>>

\* The same with the units dropped by the failed check.
FailedCheckMap_Cleared(map) == EmptyMap

\* return err: a failed mandatory-unit check returns without a change to
\* the map.
FailedCheckMap(map) == map

\* The mandatory units are all held.
Decodable(map) == HasParameterSets(map) /\ HasPicture(map)

\* ffmpeg_v1_decode_image.  be is the backend's behaviour; stray is the byte
\* a read of released memory sees; undefined behaviour may terminate the
\* process (fatal).
DecodeImage(d, be) ==
    /\ ~crashed
    /\ status[d] = "live"
    /\ IF ~Decodable(NalMap[d])
       THEN /\ call' = [NoCall EXCEPT !.op = "decode_image", !.handle = d,
                                      !.ret = EndOfData("Unexpected end of data"),
                                      !.units = NalMap[d],
                                      !.picture_first = picture_first[d],
                                      !.after_success = spent[d],
                                      !.strict = strict_decoding[d],
                                      !.failed = TRUE,
                                      !.failed_held = DOMAIN NalMap[d],
                                      !.retry = Retrying(d, "decode_image"),
                                      !.retry_held = IF Retrying(d, "decode_image")
                                                     THEN call.failed_held ELSE {}]
            /\ NalMap' = [NalMap EXCEPT ![d] = FailedCheckMap(@)]
            /\ UNCHANGED <<status, strict_decoding, allocated, mem, pushed,
                           picture_first, spent, out_img, crashed>>
       ELSE \E stray \in IF \E t \in DOMAIN NalMap[d] : Dangling(NalMap[d][t], mem)
                         THEN StrayBytes ELSE {0} :
              LET r == decode_run(NalMap[d], mem, out_img, be, stray)
                  maps == [NalMap EXCEPT ![d] = ClearedMap(@)]
              IN  \E fatal \in IF r.ub = {} THEN {FALSE} ELSE BOOLEAN :
                    IF fatal
                    THEN Terminate(d, r.ub)
                    ELSE /\ NalMap' = RenameMaps(maps, status)
                         /\ mem' = RenameMem(mem, maps, status)
                         /\ allocated' =
                              [allocated EXCEPT ![d] = @ - DeletedUnits(NalMap[d])]
                         /\ pushed' = [pushed EXCEPT ![d] = EmptyMap]
                         /\ picture_first' = [picture_first EXCEPT ![d] = FALSE]
                         /\ spent' = [spent EXCEPT ![d] = @ \/ IsOk(r.ret)]
                         /\ out_img' = r.out_img
                         /\ call' = [NoCall EXCEPT
                                       !.op = "decode_image", !.handle = d,
                                       !.ret = r.ret, !.units = NalMap[d],
                                       !.picture_first = picture_first[d],
                                       !.after_success = spent[d],
                                       !.strict = strict_decoding[d],
                                       !.retry = Retrying(d, "decode_image"),
                                       !.retry_held = IF Retrying(d, "decode_image")
                                                      THEN call.failed_held ELSE {},
                                       !.hevc_data = r.hevc_data,
                                       !.hevc_data_size = hevc_data_size(NalMap[d]),
                                       !.acquired = r.acquired,
                                       !.released = r.released,
                                       !.held = [t \in DOMAIN NalMap[d] |->
                                                    UnitBytes(NalMap[d][t], mem, stray)],
                                       !.expected = AsPushed(NalMap[d], pushed[d]),
                                       !.backend = be, !.images = r.images,
                                       !.assigned = r.assigned, !.ub = r.ub]
                         /\ UNCHANGED <<status, strict_decoding, crashed>>

\* ffmpeg_free_decoder: delete decoder.  The map's nodes go; the NalUnit
\* objects they point to are not deleted.
FreeDecoder(d) ==
    /\ ~crashed
    /\ status[d] = "live"
    /\ status' = [status EXCEPT ![d] = "freed"]
    /\ LET maps == [NalMap EXCEPT ![d] = EmptyMap]
       IN  /\ NalMap' = RenameMaps(maps, status')
           /\ mem' = RenameMem(mem, maps, status')
    /\ pushed' = [pushed EXCEPT ![d] = EmptyMap]
    /\ call' = [NoCall EXCEPT !.op = "free_decoder", !.handle = d]
    /\ UNCHANGED <<strict_decoding, allocated, picture_first, spent, out_img, crashed>>

(***************************************************************************)
(* Specifications.                                                         *)
(***************************************************************************)
Unit(b) == EncodeUnit(<<b>>)

\* The four mandatory units in one buffer, parameter sets first and
\* picture first.
InOrder == Unit(64) \o Unit(66) \o Unit(68) \o Unit(38)
PictureFirst == Unit(40) \o Unit(64) \o Unit(66) \o Unit(68)

\* The buffers of the decoder's life: one unit each, the four mandatory
\* units in one buffer in both orders, a unit type twice in one buffer, a cut
\* buffer and a zero-length unit at a buffer's end.
StreamBuffers ==
    {Unit(b) : b \in TagBytes}
      \cup {<<>>, InOrder, PictureFirst,
            Unit(66) \o EncodeUnit(<<66>> \o Fill(1)),
            SubSeq(Unit(64) \o Unit(68), 1, 8),
            Unit(68) \o EncodeUnit(<<>>)}

\* In a behaviour that is not decodable the backend is not asked anything.
BehavioursFor(d, all) == IF Decodable(NalMap[d]) THEN all ELSE {PlainBehaviour}

\* The life of a decoder: pushes of all kinds, a few backend behaviours.
Next ==
    \/ \E d \in Single : NewDecoder(d)
    \/ \E d \in Single, data \in StreamBuffers : PushData(d, data, 0)
    \/ \E d \in Single : \E be \in BehavioursFor(d, FewBehaviours) : DecodeImage(d, be)
    \/ \E d \in Single : FreeDecoder(d)

Spec == Init /\ [][Next]_vars

\* The backend: whole streams pushed, every backend behaviour.
NextBackend ==
    \/ \E d \in Single : NewDecoder(d)
    \/ \E d \in Single, data \in {InOrder, PictureFirst} : PushData(d, data, 0)
    \/ \E d \in Single : \E be \in BehavioursFor(d, Behaviours) : DecodeImage(d, be)
    \/ \E d \in Single : FreeDecoder(d)

SpecBackend == Init /\ [][NextBackend]_vars

\* The parse of one buffer: every input buffer pushed to a new decoder.
NextPush ==
    \/ \E d \in Single : NewDecoder(d)
    \/ \E d \in Single, data \in InputBuffers :
          call.op = "new_decoder" /\ PushData(d, data, 0)

SpecPush == Init /\ [][NextPush]_vars

\* The caller's buffers: between push_data and decode_image the caller
\* overwrites a buffer, releases it, or fills it anew for the next push.
MemBuffers == {InOrder} \cup {Unit(b) : b \in {64, 66, 68, 38}}

NextMem ==
    \/ \E d \in Single : NewDecoder(d)
    \/ \E d \in Single, data \in MemBuffers, into \in {0} \cup DOMAIN mem :
          PushData(d, data, into)
    \/ \E b \in DOMAIN mem : CallerOverwrite(b, 0)
    \/ \E b \in DOMAIN mem : CallerRelease(b)
    \/ \E d \in Single : \E be \in BehavioursFor(d, {PlainBehaviour}) : DecodeImage(d, be)
    \/ \E d \in Single : FreeDecoder(d)

SpecMem == Init /\ [][NextMem]_vars

(***************************************************************************)
(* The C++ wrapper (heif_cxx.h).                                           *)
(***************************************************************************)
\* heif::Error::Error(): the error of a wrapper that has not failed.
ErrorDefault ==
    [m_code |-> "heif_error_Ok", m_subcode |-> "heif_suberror_Unspecified",
     m_message |-> "Ok"]

\* heif::Error::Error(const heif_error& err)
Error(err) == [m_code |-> err.code, m_subcode |-> err.subcode, m_message |-> err.message]

\* The same, also true for a subcode other than Unspecified.
ErrorBool_OrSubcode(e) ==
    e.m_code # "heif_error_Ok" \/ e.m_subcode # "heif_suberror_Unspecified"

\* heif::Error::operator bool()
ErrorBool(e) == e.m_code # "heif_error_Ok"

\* The wrapper operations that throw, each with whether it returns a value
\* (an id, a handle, an image, a parameter value, metadata) or is void.
ThrowingWrappers ==
    {[name |-> n, returns |-> FALSE] :
        n \in {"Context::read_from_file", "Context::read_from_memory", "Context::write",
               "Context::write_to_file", "Image::add_plane", "Encoder::set_lossy_quality",
               "Encoder::set_lossless", "Encoder::set_integer_parameter",
               "Encoder::set_boolean_parameter", "Encoder::set_string_parameter",
               "Encoder::set_parameter"}}
      \cup
    {[name |-> n, returns |-> TRUE] :
        n \in {"Context::get_primary_image_ID", "Context::get_primary_image_handle",
               "Context::get_image_handle", "ImageHandle::get_thumbnail",
               "ImageHandle::decode_image", "ImageHandle::get_metadata",
               "Image::scale_image", "Encoder::get_integer_parameter",
               "Encoder::get_boolean_parameter", "Encoder::get_string_parameter",
               "Encoder::get_parameter", "Context::encode_image"}}

\* What the underlying C call may return: success, the errors of the
\* decoder plugin (one with an empty message), and two results whose code is
\* heif_error_Ok while the subcode or the message is not that of success.
CErrors ==
    {heif_error_success, EndOfData(kEmptyString), EndOfData("Unexpected end of data"),
     PluginError("avcodec_open2 returned error"), UnsupportedColorConversion,
     InvalidImageSize,
     [heif_error_success EXCEPT !.subcode = "heif_suberror_End_of_data"],
     [heif_error_success EXCEPT !.message = kEmptyString]}

\* The body shared by the throwing wrappers:
\*   Error err = Error(heif_xxx(..., &out));  if (err) { throw err; }  return out;
\* out is what the C call wrote to its output parameter.
ThrowingWrapper(w, c_ret, out) ==
    LET err == Error(c_ret)
    IN  IF ErrorBool(err)
        THEN [thrown |-> TRUE, error |-> err, result |-> "none"]
        ELSE [thrown |-> FALSE, error |-> ErrorDefault,
              result |-> IF w.returns THEN out ELSE "void"]

\* A call of a throwing wrapper operation.
WrapperCall(w, c_ret, out) ==
    /\ ~crashed
    /\ LET r == ThrowingWrapper(w, c_ret, out)
       IN  call' = [NoCall EXCEPT !.op = "wrapper", !.wrapper = w.name, !.c_ret = c_ret,
                                  !.thrown = r.thrown, !.error = r.error,
                                  !.result = r.result]
    /\ UNCHANGED <<status, NalMap, strict_decoding, allocated, mem, pushed, picture_first,
                   spent, out_img, crashed>>

(***************************************************************************)
(* EncoderDescriptor::get_encoder_descriptors.                             *)
(***************************************************************************)
\* The registries: size is the number of registered descriptors that match
\* the filters, order the way the registry lists them.  A descriptor is
\* named by a number.  Next to the small registries stand the smallest one
\* that fills the capacity 10 * 2^27 and the largest an int can count.
Registries ==
    [size : (0 .. MaxDescriptors) \cup {1342177280, INT_MAX},
     order : {"ascending", "descending"}]

\* The k-th descriptor the registry reports, k in 1 .. size.
Reported(reg, k) ==
    IF reg.order = "ascending" THEN k ELSE reg.size + 1 - k

\* heif_context_get_encoder_descriptors(nullptr, format_filter, name_filter,
\* descriptors, count): writes the first count matching descriptors, or all
\* if there are fewer, to descriptors[0 ..] and returns how many it wrote.
heif_context_get_encoder_descriptors(reg, count) ==
    IF reg.size < count THEN reg.size ELSE count

\* descriptors[i] after that call, 0 <= i < nDescriptors.
descriptors(reg, i) == Reported(reg, i + 1)

\* maxDescriptors *= 2 where the product is no int, on a build whose
\* multiplication wraps.
Wrapped(maxDescriptors) ==
    ((maxDescriptors - (INT_MAX \div 2 + 1)) * 2 - INT_MAX) - 1

\* One pass of the for (;;) body from the state e of the call; the set holds
\* every state the pass can end in.  allocated and deleted list the sizes
\* of the arrays given to new[] and delete[].
loop_body(e) ==
    IF e.maxDescriptors < 0
    THEN \* new[] throws std::bad_array_new_length, the function is noexcept
         {[e EXCEPT !.pc = "terminated"]}
    ELSE LET n  == heif_context_get_encoder_descriptors(e.registry, e.maxDescriptors)
             e1 == [e EXCEPT !.nDescriptors = n,
                             !.allocated = Append(@, e.maxDescriptors),
                             !.deleted = Append(@, e.maxDescriptors)]
         IN  IF n < e.maxDescriptors
             THEN {[e1 EXCEPT !.pc = "returned",
                              !.outDescriptors =
                                  [k \in 1 .. n |-> descriptors(e.registry, k - 1)]]}
             ELSE IF e.maxDescriptors <= INT_MAX \div 2
             THEN {[e1 EXCEPT !.maxDescriptors = 2 * @]}
             ELSE \* signed overflow: the product wraps, or the build traps
                  {[e1 EXCEPT !.maxDescriptors = Wrapped(@),
                              !.ub = {"signed overflow"}],
                   [e1 EXCEPT !.pc = "terminated", !.ub = {"signed overflow"}]}

\* The call is entered: int maxDescriptors = 10.
GetEncoderDescriptors(reg) ==
    /\ ~crashed
    /\ call.enc.pc # "loop"
    /\ call' = [NoCall EXCEPT !.op = "get_encoder_descriptors",
                              !.enc = [NoDescriptorCall EXCEPT
                                          !.pc = "loop", !.registry = reg,
                                          !.maxDescriptors = InitialMaxDescriptors]]
    /\ UNCHANGED <<status, NalMap, strict_decoding, allocated, mem, pushed, picture_first,
                   spent, out_img, crashed>>

\* The call makes one pass of its loop.
LoopBody ==
    /\ ~crashed
    /\ call.op = "get_encoder_descriptors"
    /\ call.enc.pc = "loop"
    /\ \E e \in loop_body(call.enc) :
          /\ call' = [call EXCEPT !.enc = e]
          /\ crashed' = (e.pc = "terminated")
    /\ UNCHANGED <<status, NalMap, strict_decoding, allocated, mem, pushed, picture_first,
                   spent, out_img>>

\* Two instances side by side, one of which may be strict, with
\* does_support_format asked in between.
TwoBuffers == {PictureFirst, Unit(64), Unit(66) \o Unit(68) \o Unit(38)}

\* The unit types push_data stores from cdata.
TypesIn(cdata) ==
    DOMAIN push_data(EmptyMap, EmptyMap, FALSE, cdata, Len(cdata), NewBuf, 0).map

\* The caller pushes no unit type that the instance already holds.
NotHeld(d, cdata) == TypesIn(cdata) \cap DOMAIN NalMap[d] = {}

NextTwo ==
    \/ \E d \in Handles : NewDecoder(d)
    \/ \E d \in Handles, flag \in StrictFlags : SetStrictDecoding(d, flag)
    \/ \E d \in Handles, data \in TwoBuffers : NotHeld(d, data) /\ PushData(d, data, 0)
    \/ \E d \in Handles :
          \E be \in BehavioursFor(d, {PlainBehaviour,
                                      [PlainBehaviour EXCEPT !.script = <<"parse_error">>]}) :
             DecodeImage(d, be)
    \/ \E d \in Handles : FreeDecoder(d)
    \/ \E format \in CompressionFormats : DoesSupportFormat(format)

SpecTwo == Init /\ [][NextTwo]_vars

\* The wrapper operations, each with every result of its C call.
NextWrap ==
    \E w \in ThrowingWrappers, c_ret \in CErrors, out \in {"value"} :
        WrapperCall(w, c_ret, out)

SpecWrap == Init /\ [][NextWrap]_vars

\* Calls of get_encoder_descriptors, one after the other.
NextDescriptors ==
    \/ \E reg \in Registries : GetEncoderDescriptors(reg)
    \/ LoopBody

SpecDescriptors == Init /\ [][NextDescriptors]_vars

(***************************************************************************)
(* The claims.                                                             *)
(***************************************************************************)
IsEndOfData(err) ==
    /\ err.code = "heif_error_Decoder_plugin_error"
    /\ err.subcode = "heif_suberror_End_of_data"

\* A VPS (32), an SPS (33), a PPS (34) or every IDR picture (19, 20) is
\* missing from the units.
LacksMandatory(units) ==
    \/ 32 \notin DOMAIN units
    \/ 33 \notin DOMAIN units
    \/ 34 \notin DOMAIN units
    \/ (19 \notin DOMAIN units /\ 20 \notin DOMAIN units)

NoImageCreated == call.images = <<>> /\ ~call.assigned

\* C1: whenever decode_image is called while the accumulated units lack a
\* VPS, an SPS, a PPS or any IDR picture (after any pushes, or none), it
\* returns Decoder_plugin_error / End_of_data and creates no image.
C1_MissingUnitEndOfData ==
    (call.op = "decode_image" /\ LacksMandatory(call.units))
        => (IsEndOfData(call.ret) /\ NoImageCreated)

\* C1's case: a decode_image with VPS, SPS and a picture held, and no PPS.
C1_Witness ==
    /\ call.op = "decode_image"
    /\ {32, 33, 19} \subseteq DOMAIN call.units
    /\ 34 \notin DOMAIN call.units
    /\ IsEndOfData(call.ret)

\* C2: push_data reads only the bytes 0 .. size-1 of the buffer it is given.
C2_ReadsWithinBuffer ==
    call.op = "push_data" => \A i \in call.reads : 0 <= i /\ i < Len(call.data)

\* The length a 4-byte big-endian prefix at position p (from 0) declares.
DeclaredLength(data, p) ==
    data[p + 1] * 16777216 + data[p + 2] * 65536 + data[p + 3] * 256 + data[p + 4]

\* The positions where a unit starts, or the buffer ends after whole units.
UnitBoundaries(data) ==
    LET size == Len(data)
        isB[p \in 0 .. size] ==
            \/ p = 0
            \/ \E q \in 0 .. (p - 1) :
                  /\ isB[q]
                  /\ q + 4 <= size
                  /\ p = q + 4 + DeclaredLength(data, q)
    IN  {p \in 0 .. size : isB[p]}

\* At the boundary p, 1 to 3 bytes remain, or the prefix declares more
\* than what remains behind it.
MalformedAt(data, p) ==
    LET rest == Len(data) - p
    IN  \/ rest \in 1 .. 3
        \/ (rest >= 4 /\ DeclaredLength(data, p) > rest - 4)

\* C3: push_data returns Decoder_plugin_error / End_of_data exactly when at
\* some unit boundary of its buffer 1 to 3 bytes remain or the length prefix
\* exceeds the bytes behind it, and success otherwise.
C3_PushResult ==
    call.op = "push_data" =>
        IF \E p \in UnitBoundaries(call.data) : MalformedAt(call.data, p)
        THEN IsEndOfData(call.ret)
        ELSE call.ret = heif_error_success

\* C3's case: a buffer refused at a boundary behind a whole unit.
C3_Witness ==
    /\ call.op = "push_data"
    /\ IsEndOfData(call.ret)
    /\ \E p \in UnitBoundaries(call.data) : p > 0 /\ MalformedAt(call.data, p)

\* C4: after decode_image returned success the instance holds no units, and
\* a decode_image that follows it without a push_data in between returns
\* End_of_data and creates no image.
C4_OneDecodePerPush ==
    /\ \A d \in Handles : spent[d] => NalMap[d] = EmptyMap
    /\ (call.op = "decode_image" /\ call.after_success)
          => (IsEndOfData(call.ret) /\ NoImageCreated)

\* C4's case: the second decode_image after a successful one.
C4_Witness == call.op = "decode_image" /\ call.after_success

\* C5 as stated: when the picture unit was pushed before the parameter
\* sets, the following decode_image returns End_of_data and no image.
C5_PictureFirstFails ==
    (call.op = "decode_image" /\ call.picture_first)
        => (IsEndOfData(call.ret) /\ NoImageCreated)

\* C5 amended: when the picture unit was pushed before the parameter sets,
\* the following decode_image returns End_of_data exactly when a mandatory
\* unit type is still missing, and then creates no image; with all of them
\* held it goes on to the backend as for units pushed in order.
C5_PictureFirstAsInOrder ==
    (call.op = "decode_image" /\ call.picture_first)
        => /\ IsEndOfData(call.ret) <=> LacksMandatory(call.units)
           /\ LacksMandatory(call.units) => NoImageCreated

\* C5's case: picture first, then the parameter sets, and an image decoded.
C5_Witness ==
    /\ call.op = "decode_image"
    /\ call.picture_first
    /\ IsOk(call.ret)
    /\ call.assigned

\* C6: the bytes decode_image assembles for the mandatory units are the
\* bytes the caller's buffers held when they were pushed, whatever the
\* caller did to the buffers since.
C6_AssemblesPushedBytes ==
    (call.op = "decode_image" /\ ~LacksMandatory(call.units))
        => call.hevc_data = call.expected

\* C7: after free_decoder no NalUnit that push_data created for the handle
\* is still allocated.
C7_FreeLeavesNoUnit == \A d \in Handles : status[d] = "freed" => allocated[d] = 0

\* C8: whenever decode_image returns success, this call assigned to out_img
\* an image with colorspace YCbCr, chroma 4:2:0 and the planes Y, Cb and Cr.
C8_SuccessGivesImage ==
    (call.op = "decode_image" /\ IsOk(call.ret))
        => /\ call.assigned
           /\ call.images # <<>>
           /\ LET img == call.images[Len(call.images)]
              IN  /\ ~img.released
                  /\ img.colorspace = "heif_colorspace_YCbCr"
                  /\ img.chroma = "heif_chroma_420"
                  /\ DOMAIN img.planes = {0, 1, 2}

\* The first failure the backend reports in a call with behaviour be, from
\* packet i of the parse loop on: one of the failures C9 lists, "other" for
\* one it does not list, "none" when the call meets no failure.
RECURSIVE LoopFailure(_, _)
LoopFailure(be, i) ==
    IF i > Len(be.script)
    THEN CASE be.tail = "avcodec_parameters_from_context" -> be.tail
           [] be.tail = "ok" -> "none"
           [] OTHER -> "other"
    ELSE LET o == be.script[i]
         IN  IF o \in {"parse_error", "send_error", "receive_again", "receive_error"}
             THEN o
             ELSE IF o = "no_packet" THEN LoopFailure(be, i + 1)
             ELSE IF be.pix_fmt \notin {"AV_PIX_FMT_YUV420P", "AV_PIX_FMT_YUVJ420P",
                                        "AV_PIX_FMT_YUV420P10LE"}
             THEN "other"
             ELSE IF o \in {"create_error", "add_plane_error_0"} THEN "other"
             ELSE IF be.width \div 2 <= 0 \/ be.height \div 2 <= 0 THEN "plane_size"
             ELSE IF o # "frame" THEN "other"
             ELSE LoopFailure(be, i + 1)

ReportedFailure(be) ==
    IF ~be.malloc THEN "other"
    ELSE IF be.setup \in {"avcodec_find_decoder", "av_parser_init", "avcodec_open2"}
    THEN be.setup
    ELSE IF be.setup # "ok" THEN "other"
    ELSE LoopFailure(be, 1)

\* C9: every failure the backend reports during decode_image (decoder not
\* found, parser init, codec open, parse error, send-packet error,
\* receive-frame error or EAGAIN/EOF, parameters-from-context error,
\* non-positive plane size) is returned with code Decoder_plugin_error and
\* a non-empty message.
C9_BackendFailureHasMessage ==
    (/\ call.op = "decode_image"
     /\ ~LacksMandatory(call.units)
     /\ ReportedFailure(call.backend) \notin {"none", "other"})
        => /\ call.ret.code = "heif_error_Decoder_plugin_error"
           /\ call.ret.message # ""

\* The backend decodes a frame in a call with behaviour be.
DecodesFrame(be) == be.setup = "ok" /\ ReachesPixFmt(be.script)

ClaimedPixFmts ==
    {"AV_PIX_FMT_YUV420P", "AV_PIX_FMT_YUVJ420P", "AV_PIX_FMT_YUV420P10LE"}

\* C10: when the pixel format of the decoded frame is none of YUV420P,
\* YUVJ420P and YUV420P10LE, decode_image returns an error with subcode
\* Unsupported_color_conversion and creates no image; for these three
\* formats it never returns that subcode.
C10_UnsupportedPixFmt ==
    (call.op = "decode_image" /\ ~LacksMandatory(call.units))
        => IF DecodesFrame(call.backend) /\ call.backend.pix_fmt \notin ClaimedPixFmts
           THEN /\ ~IsOk(call.ret)
                /\ call.ret.subcode = "heif_suberror_Unsupported_color_conversion"
                /\ NoImageCreated
           ELSE call.ret.subcode # "heif_suberror_Unsupported_color_conversion"

\* C10's case: a frame in a format outside the three, refused.
C10_Witness ==
    /\ call.op = "decode_image"
    /\ DecodesFrame(call.backend)
    /\ call.backend.pix_fmt \notin ClaimedPixFmts
    /\ call.ret.subcode = "heif_suberror_Unsupported_color_conversion"

\* The backend's behaviour lets the call come to the calls behind the parse
\* loop: no call before or in the loop fails.
ReachesTail(be) ==
    /\ be.setup = "ok"
    /\ \A i \in 1 .. Len(be.script) : be.script[i] \in {"no_packet", "frame"}
    /\ (\E i \in 1 .. Len(be.script) : be.script[i] = "frame")
          => (be.pix_fmt \in ClaimedPixFmts /\ be.width >= 2 /\ be.height >= 2)

\* The allocation inside decode_image that fails first in a call with
\* behaviour be: the bitstream buffer, the packet, the codec context, the
\* frame, the codec parameters or the nclx colour profile; "none" otherwise.
FailedAllocation(be) ==
    IF ~be.malloc THEN "malloc"
    ELSE IF be.setup \in {"av_packet_alloc", "avcodec_alloc_context3", "av_frame_alloc"}
    THEN be.setup
    ELSE IF ReachesTail(be)
              /\ be.tail \in {"avcodec_parameters_alloc", "heif_nclx_color_profile_alloc"}
    THEN be.tail
    ELSE "none"

\* C11: every allocation failure inside decode_image (bitstream buffer,
\* packet, codec context, frame, codec parameters, nclx colour profile) is
\* returned as a Memory_allocation_error, and no null allocation result is
\* written to or dereferenced: the call is not terminated and meets no
\* undefined behaviour on a null pointer.
C11_AllocationFailureReported ==
    /\ (call.op = "decode_image" /\ ~LacksMandatory(call.units)
          /\ FailedAllocation(call.backend) # "none")
          => /\ call.ret.code = "heif_error_Memory_allocation_error"
             /\ call.ub \cap {"memcpy to NULL", "write through NULL nclx"} = {}
    /\ call.op = "terminated"
          => call.ub \cap {"memcpy to NULL", "write through NULL nclx"} = {}

\* Half of n, rounded up.
CeilHalf(n) == (n + 1) \div 2

\* The backend hands decode_image a frame in one of the three pixel formats
\* and fails in nothing it is asked for.
FrameDecoded(be) ==
    /\ be.malloc
    /\ be.setup = "ok"
    /\ \A i \in 1 .. Len(be.script) : be.script[i] \in {"no_packet", "frame"}
    /\ \E i \in 1 .. Len(be.script) : be.script[i] = "frame"
    /\ be.pix_fmt \in ClaimedPixFmts
    /\ be.tail = "ok"

\* C12: for every decoded frame of width W and height H the image
\* decode_image produces has a Y plane of W x H and Cb and Cr planes of
\* ceil(W/2) x ceil(H/2), for odd and even W and H, W = 1 and H = 1 included.
C12_ChromaHalfRoundedUp ==
    (call.op = "decode_image" /\ ~LacksMandatory(call.units) /\ FrameDecoded(call.backend))
        => /\ call.images # <<>>
           /\ \A k \in 1 .. Len(call.images) :
                LET img == call.images[k]
                    W == call.backend.width
                    H == call.backend.height
                IN  /\ DOMAIN img.planes = {0, 1, 2}
                    /\ img.planes[0].width = W /\ img.planes[0].height = H
                    /\ \A c \in {1, 2} :
                          /\ img.planes[c].width = CeilHalf(W)
                          /\ img.planes[c].height = CeilHalf(H)

\* A unit too short to hold the two bytes of an HEVC NAL unit header makes
\* the stream non-conformant.
NonConformant(units) == \E t \in DOMAIN units : units[t].nal_data_size < 2

\* A step that is decode_image on the strict instance 2, straight after
\* decode_image on the lenient instance 1, both holding the same units from
\* the same pushes and given the same backend responses.
SameDecodeLenientThenStrict ==
    /\ call.op = "decode_image" /\ call.handle = 1 /\ ~call.strict
    /\ call'.op = "decode_image" /\ call'.handle = 2 /\ call'.strict
    /\ call'.expected = call.expected
    /\ call'.picture_first = call.picture_first
    /\ DOMAIN call'.units = DOMAIN call.units
    /\ call'.backend = call.backend

\* C13: strict decoding changes what decode_image accepts: a non-conformant
\* stream that the lenient instance decodes is rejected by the strict
\* instance fed the same pushes and the same backend responses.
C13_StrictRejects ==
    [][(SameDecodeLenientThenStrict /\ NonConformant(call.units) /\ IsOk(call.ret))
          => ~IsOk(call'.ret)]_vars

\* What the code does instead: the strict instance returns what the lenient
\* one returned, for every stream and every backend response.
StrictDecodesAsLenient ==
    [][SameDecodeLenientThenStrict => call'.ret = call.ret]_vars

\* C14: a newly created instance is lenient; set_strict_decoding(handle,
\* flag) makes the instance strict iff flag is nonzero and leaves the
\* accumulated units unchanged; no other operation, and no operation on
\* another instance, changes an instance's mode.
C14_ModeOnlySetByFlag ==
    [][/\ call'.op = "new_decoder" => ~strict_decoding'[call'.handle]
       /\ call'.op = "set_strict_decoding"
             => /\ strict_decoding'[call'.handle] <=> (call'.flag # 0)
                /\ NalMap' = NalMap
       /\ \A d \in Handles :
             strict_decoding'[d] # strict_decoding[d]
                => call'.op = "set_strict_decoding" /\ call'.handle = d]_vars

\* C14's case: an instance holding units is made strict with the flag 2
\* while the other instance is live and lenient.
C14_Witness ==
    /\ call.op = "set_strict_decoding"
    /\ call.flag = 2
    /\ strict_decoding[call.handle]
    /\ NalMap[call.handle] # EmptyMap
    /\ \E d \in Handles \ {call.handle} : status[d] = "live" /\ ~strict_decoding[d]

\* C15: does_support_format returns 90 for the HEVC format and 0 for every
\* other compression format, whatever was created, pushed, decoded, set or
\* freed on any instance before.
C15_PriorityByFormat ==
    call.op = "does_support_format"
        => call.priority = (IF call.format = "heif_compression_HEVC" THEN 90 ELSE 0)

\* C15's case: asked about a format other than HEVC after one instance was
\* freed and while the other, made strict, holds units.
C15_Witness ==
    /\ call.op = "does_support_format"
    /\ call.format = "heif_compression_AV1"
    /\ call.priority = 0
    /\ status[1] = "freed"
    /\ strict_decoding[2] /\ NalMap[2] # EmptyMap

\* C16: a throwing wrapper operation throws an Error if and only if its C
\* call returns a code other than heif_error_Ok; the Error thrown carries
\* the C result's code, subcode and message, and no value is returned.
C16_ThrowsIffNotOk ==
    call.op = "wrapper"
        => /\ call.thrown <=> call.c_ret.code # "heif_error_Ok"
           /\ call.thrown
                 => /\ call.error.m_code = call.c_ret.code
                    /\ call.error.m_subcode = call.c_ret.subcode
                    /\ call.error.m_message = call.c_ret.message
                    /\ call.result = "none"
           /\ ~call.thrown => call.result \in {"value", "void"}

\* C16's case: decode_image's wrapper throws the plugin's End_of_data.
C16_Witness ==
    /\ call.op = "wrapper"
    /\ call.wrapper = "ImageHandle::decode_image"
    /\ call.thrown
    /\ call.error.m_subcode = "heif_suberror_End_of_data"
    /\ call.error.m_message = "Unexpected end of data"

\* The units of a well-formed buffer from the boundary p on, in order.
RECURSIVE UnitList(_, _)
UnitList(data, p) ==
    IF p + 4 > Len(data) THEN <<>>
    ELSE <<SubSeq(data, p + 5, p + 4 + DeclaredLength(data, p))>>
            \o UnitList(data, p + 4 + DeclaredLength(data, p))

\* A unit's tag: (first byte >> 1) & 63.
TagOf(unit) == (unit[1] \div 2) % 64

\* The places in the list of units where a unit with the tag t stands.
WithTag(units, t) == {i \in 1 .. Len(units) : units[i] # <<>> /\ TagOf(units[i]) = t}

\* The last unit of the list with the tag t.
LastWithTag(units, t) ==
    LET is == WithTag(units, t)
    IN  units[CHOOSE i \in is : \A k \in is : k <= i]

\* C17: an instance holds at most one unit per tag, each under its own tag;
\* after a successful push_data the unit held for a tag that occurs in the
\* buffer is the last unit of the buffer with that tag, and what is held
\* for every other tag is unchanged.
C17_LastUnitPerTag ==
    [][(call'.op = "push_data" /\ IsOk(call'.ret))
          => LET d == call'.handle
                 units == UnitList(call'.data, 0)
             IN  \A t \in 0 .. 63 :
                    IF WithTag(units, t) # {}
                    THEN /\ t \in DOMAIN NalMap'[d]
                         /\ NalMap'[d][t].nal_unit_type = t
                         /\ NalMap'[d][t].nal_data_size = Len(LastWithTag(units, t))
                         /\ pushed'[d][t] = LastWithTag(units, t)
                    ELSE /\ t \in DOMAIN NalMap'[d] <=> t \in DOMAIN NalMap[d]
                         /\ t \in DOMAIN NalMap[d]
                               => /\ NalMap'[d][t].nal_data_size = NalMap[d][t].nal_data_size
                                  /\ NalMap'[d][t].nal_data_ptr.off = NalMap[d][t].nal_data_ptr.off
                                  /\ pushed'[d][t] = pushed[d][t]]_vars

\* C18: a decode_image that fails the mandatory-unit check (End_of_data)
\* leaves the accumulated units and the strict flag unchanged; the
\* decode_image that follows it after a push_data therefore still has the
\* units held at the failure, and passes the check once no mandatory unit
\* type is missing.
C18_FailedCheckKeepsUnits ==
    [][/\ (call'.op = "decode_image" /\ IsEndOfData(call'.ret))
             => /\ NalMap' = NalMap
                /\ pushed' = pushed
                /\ strict_decoding' = strict_decoding
       /\ (call'.op = "decode_image" /\ call'.retry)
             => /\ call'.retry_held \subseteq DOMAIN call'.units
                /\ ~LacksMandatory(call'.units) => ~IsEndOfData(call'.ret)]_vars

\* C18's case: a strict instance holding only a VPS failed the check, the
\* missing unit types were pushed, and decode_image then decoded an image.
C18_Witness ==
    /\ call.op = "decode_image"
    /\ call.retry
    /\ call.retry_held = {32}
    /\ call.strict /\ strict_decoding[call.handle]
    /\ IsOk(call.ret)
    /\ call.assigned

\* C19: every image created during one decode_image call is the single
\* image returned in out_img on success or has been released when the call
\* returns: an error return leaves no image allocated, and an earlier
\* packet's image is not left unreleased when the parser emits several.
C19_ImagesReleasedOrReturned ==
    call.op = "decode_image"
        => \A k \in 1 .. Len(call.images) :
              \/ call.images[k].released
              \/ (IsOk(call.ret) /\ k = Len(call.images))

\* C20: the bitstream decode_image hands to the backend is 00 00 00 01 VPS
\* 00 00 00 01 SPS 00 00 00 01 PPS 00 00 00 01 IDR, of length |VPS| + |SPS| +
\* |PPS| + |IDR| + 16, where IDR is the held unit of type 19 if there is one
\* and the held unit of type 20 otherwise.
C20_BitstreamLayout ==
    (call.op = "decode_image" /\ ~LacksMandatory(call.units))
        => LET idr == IF 19 \in DOMAIN call.units THEN 19 ELSE 20
               sc == <<0, 0, 0, 1>>
               size == call.units[32].nal_data_size + call.units[33].nal_data_size
                         + call.units[34].nal_data_size + call.units[idr].nal_data_size + 16
           IN  /\ call.hevc_data =
                     sc \o call.held[32] \o sc \o call.held[33] \o sc \o call.held[34]
                        \o sc \o call.held[idr]
               /\ call.hevc_data_size = size
               /\ Len(call.hevc_data) = size

\* C20's case: units of type 19 and of type 20 are both held, with
\* different bytes, and the call went on to the backend.
C20_Witness ==
    /\ call.op = "decode_image"
    /\ ~LacksMandatory(call.units)
    /\ {19, 20} \subseteq DOMAIN call.units
    /\ call.held[19] # call.held[20]
    /\ call.backend # NoBackend

\* The backend resources of one decode_image call.
Resources ==
    {"hevc_data", "hevc_pkt", "hevc_parser", "hevc_codecContext", "hevc_frame",
     "hevc_codecParam", "nclx"}

\* How often x stands in the sequence.
Count(seq, x) == Cardinality({k \in 1 .. Len(seq) : seq[k] = x})

\* The resources a call with behaviour be acquires: the bitstream buffer if
\* malloc gives one; packet, parser, codec context and frame if no call up
\* to their allocation fails; codec parameters and nclx profile if the call
\* comes to the calls behind the parse loop and their allocation succeeds.
ExpectedResources(be) ==
    (IF be.malloc THEN {"hevc_data"} ELSE {})
      \cup (IF be.setup # "av_packet_alloc" THEN {"hevc_pkt"} ELSE {})
      \cup (IF be.setup \in {"avcodec_alloc_context3", "avcodec_open2", "av_frame_alloc", "ok"}
            THEN {"hevc_parser"} ELSE {})
      \cup (IF be.setup \in {"avcodec_open2", "av_frame_alloc", "ok"}
            THEN {"hevc_codecContext"} ELSE {})
      \cup (IF be.setup = "ok" THEN {"hevc_frame"} ELSE {})
      \cup (IF ReachesTail(be) /\ be.tail # "avcodec_parameters_alloc"
            THEN {"hevc_codecParam"} ELSE {})
      \cup (IF ReachesTail(be) /\ be.tail = "ok" THEN {"nclx"} ELSE {})

\* C21: on every return of decode_image past the mandatory-unit check,
\* success or error, each backend resource the call acquired (bitstream
\* buffer, packet, parser, codec context, frame, codec parameters, nclx
\* profile) has been released exactly once, and no resource it did not
\* acquire has been released.
C21_ResourcesReleasedOnce ==
    (call.op = "decode_image" /\ ~LacksMandatory(call.units))
        => /\ {call.acquired[k] : k \in 1 .. Len(call.acquired)}
                 = ExpectedResources(call.backend)
           /\ \A x \in Resources :
                 Count(call.released, x)
                    = (IF x \in ExpectedResources(call.backend) THEN 1 ELSE 0)

\* C21's case: avcodec_open2 fails, with buffer, packet, parser and codec
\* context acquired and released and no frame.
C21_Witness ==
    /\ call.op = "decode_image"
    /\ call.backend.setup = "avcodec_open2"
    /\ ~IsOk(call.ret)
    /\ Len(call.acquired) = 4
    /\ Len(call.released) = 4
    /\ Count(call.released, "hevc_parser") = 1
    /\ Count(call.released, "hevc_frame") = 0

\* What the call is to return: the descriptors of the registry in the order
\* the registry reports them.
AllReported(reg) == [k \in 1 .. reg.size |-> Reported(reg, k)]

\* The arrays were allocated with capacity 10, 20, 40, ...
CapacityDoubles(sizes) ==
    \A k \in 1 .. Len(sizes) :
        sizes[k] = IF k = 1 THEN 10 ELSE 2 * sizes[k - 1]

\* A call of get_encoder_descriptors on e's registry has gone well so far.
DescriptorCallSound(e) ==
    /\ e.pc # "terminated"
    /\ e.ub = {}
    /\ CapacityDoubles(e.allocated)
    /\ \A k \in 1 .. Len(e.allocated) - 1 : e.allocated[k] <= e.registry.size
    /\ (e.pc = "returned")
          => /\ e.outDescriptors = AllReported(e.registry)
             /\ e.deleted = e.allocated
             /\ e.allocated[Len(e.allocated)] > e.registry.size

\* C22: for any number N of registered descriptors that match,
\* get_encoder_descriptors comes to its return and not to another end, gives
\* exactly the N descriptors in the registry's order, allocates with
\* capacity 10 and the double of the last capacity whenever the registry
\* filled it, and has freed every array it allocated when it returns.
C22_ReturnsAllDescriptors ==
    (call.op = "get_encoder_descriptors") => DescriptorCallSound(call.enc)

\* The same for the registries whose capacities stay within an int.
C22_SmallRegistries ==
    (call.op = "get_encoder_descriptors" /\ call.enc.registry.size <= MaxDescriptors)
        => DescriptorCallSound(call.enc)

\* C22's case: a registry of 20 descriptors fills the capacities 10 and 20
\* and is returned whole from the third array.
C22_Witness ==
    /\ call.op = "get_encoder_descriptors"
    /\ call.enc.pc = "returned"
    /\ call.enc.registry.size = 20
    /\ call.enc.allocated = <<10, 20, 40>>
    /\ call.enc.deleted = <<10, 20, 40>>
    /\ Len(call.enc.outDescriptors) = 20

====
